---- MODULE Spec2Model ----
(***************************************************************************)
(* Model of mitmproxy/tools/console/flowview.py: the content renderer of   *)
(* FlowDetails (content_view / _get_content_view with its lru_cache and    *)
(* its line budget) and the key dispatcher FlowDetails.keypress.           *)
(*                                                                         *)
(* A text is represented by its length (number of characters): the code    *)
(* only takes len(text) and the prefix text[:k] of a text.                 *)
(***************************************************************************)
EXTENDS Integers, Sequences, FiniteSets, TLC

\* ---------------------------------------------------------------- bounds
MaxLines == 2
MaxSegs == 2
MaxBudget == 2
\* size of the range of hash() in the model (stands for 2^64)
HashSpace == 19
\* number of provider invocations followed
MaxCalls == 3
\* maxsize of the lru_cache, scaled down from 200
lru_maxsize == 2

\* number of flow objects (the initial flows and their duplicates)
MaxFlows == 3
\* number of input events (keys, callbacks, redraws) followed
MaxEvents == 5

\* lengths of the texts a provider segment may carry (truncation loop)
SegLens == {0, 80, 81}

\* ------------------------------------------------------- program constants
chars_per_line == 80
\* contentviews.VIEW_CUTOFF
VIEW_CUTOFF == 512
\* sys.maxsize: a budget no content of the model reaches
sys_maxsize == 26843545
TAB_REQ == 0
TAB_RESP == 1
TAB_DETAIL == 2

Min(a, b) == IF a <= b THEN a ELSE b
Max(a, b) == IF a >= b THEN a ELSE b

\* text[:k] on a text of length n (Python slice; a negative k counts from the end)
Slice(n, k) == IF k >= 0 THEN Min(n, k) ELSE Max(n + k, 0)

\* max_chars = max_lines * chars_per_line
max_chars_of(max_lines) == max_lines * chars_per_line

\* int(math.ceil(total_chars / chars_per_line) * chars_per_line)
RoundUp(n) == ((n + chars_per_line - 1) \div chars_per_line) * chars_per_line

\* a styled segment (style, text): text names the string, len is the number
\* of its characters that are present (a prefix of the named string)
Seg(style, text, n) == [style |-> style, text |-> text, len |-> n]

NumDigits(n) == IF n < 10 THEN 1 ELSE IF n < 100 THEN 2 ELSE IF n < 1000 THEN 3 ELSE 19

\* the synthetic line appended when the budget is exhausted
NoticeLine(max_lines) ==
    << Seg("highlight", "Stopped displaying data after %d lines. Press ", 44 + NumDigits(max_lines)),
       Seg("key", "f", 1),
       Seg("highlight", " to load all data.", 18) >>

\* one provider segment: the text is cut to what is left of the budget
CutTextNoSlice(n, total, max_chars) == n
CutText(n, total, max_chars) ==
    IF total + n > max_chars THEN Slice(n, max_chars - total) ELSE n

\* the inner loop "for (style, text) in line", from segment j on;
\* returns the segments appended to txt and the running total
RECURSIVE InnerLoop(_, _, _, _, _)
InnerLoop(line, j, txt, total, max_chars) ==
    IF j > Len(line) THEN [txt |-> txt, total |-> total]
    ELSE LET n    == CutText(line[j].len, total, max_chars)
             txt2 == Append(txt, Seg(line[j].style, line[j].text, n))
             tot2 == total + n
         IN  IF tot2 = max_chars
             THEN [txt |-> txt2, total |-> tot2]
             ELSE InnerLoop(line, j + 1, txt2, tot2, max_chars)

\* one iteration of "for line in lines": the state after the line
LineStepNoNotice(line, objs, total, max_lines) ==
    LET r    == InnerLoop(line, 1, << >>, total, max_chars_of(max_lines))
        tot  == RoundUp(r.total)
    IN  [objs |-> Append(objs, r.txt), total |-> tot, stop |-> tot = max_chars_of(max_lines)]
LineStep(line, objs, total, max_lines) ==
    LET r    == InnerLoop(line, 1, << >>, total, max_chars_of(max_lines))
        tot  == RoundUp(r.total)
        out  == Append(objs, r.txt)
    IN  IF tot = max_chars_of(max_lines)
        THEN [objs |-> Append(out, NoticeLine(max_lines)), total |-> tot, stop |-> TRUE]
        ELSE [objs |-> out, total |-> tot, stop |-> FALSE]

\* the whole loop of _get_content_view over the provider lines
RECURSIVE OuterLoop(_, _, _, _, _)
OuterLoop(plines, i, objs, total, max_lines) ==
    IF i > Len(plines) THEN objs
    ELSE LET s == LineStep(plines[i], objs, total, max_lines)
         IN  IF s.stop THEN s.objs
             ELSE OuterLoop(plines, i + 1, s.objs, s.total, max_lines)

\* ------------------------------------------------------------ input sets
RECURSIVE SeqsUpTo(_, _)
SeqsUpTo(S, n) ==
    IF n = 0 THEN { << >> }
    ELSE LET P == SeqsUpTo(S, n - 1)
         IN  P \cup { Append(s, x) : s \in { q \in P : Len(q) = n - 1 }, x \in S }

ProviderSegs == { Seg("text", "t", n) : n \in SegLens }
ProviderLine == SeqsUpTo(ProviderSegs, MaxSegs)
ProviderLines == SeqsUpTo(ProviderLine, MaxLines)


\* ------------------------------------------------------------- messages
\* raw_content: the bytes obtained by compressing `data` with `coding`;
\* None_content is Python's None
Raw(coding, data) == [coding |-> coding, data |-> data]
None_content == Raw("none", "none")
Codings == << "identity", "gzip", "deflate", "br" >>
Datas == << "", "a", "big", "bad" >>
Paths == << "None", "/p", "/q" >>
HeaderNames == << "content-encoding", "x" >>
HeaderValues == << "gzip", "deflate", "br", "1", "2" >>

\* position of x in seq, 0 when it is not listed (None)
IndexIn(seq, x) ==
    IF \E i \in 1 .. Len(seq) : seq[i] = x
    THEN CHOOSE i \in 1 .. Len(seq) : seq[i] = x
    ELSE 0

\* a request or response: headers.fields is a tuple of (name, value) pairs;
\* only a request has a path attribute
Message(role, raw, fields, path) ==
    [role |-> role, raw_content |-> raw, fields |-> fields, path |-> path]
NoMessage == Message("none", None_content, << >>, "None")

\* getattr(message, "path", None)
getattr_path(message) == IF message.role = "request" THEN message.path ELSE "None"

\* headers.get(name, default)
RECURSIVE headers_get(_, _, _)
headers_get(fields, name, default) ==
    IF fields = << >> THEN default
    ELSE IF Head(fields)[1] = name THEN Head(fields)[2]
    ELSE headers_get(Tail(fields), name, default)

\* ------------------------------------------------------------------ hash
\* hash() of the items of the fingerprint tuple and of the tuple: a
\* deterministic map into HashSpace values, equal on equal arguments
hash_bytes(raw) == (IndexIn(Codings, raw.coding) * 4 + IndexIn(Datas, raw.data)) % HashSpace
RECURSIVE hash_fields(_)
hash_fields(fields) ==
    IF fields = << >> THEN 7
    ELSE (hash_fields(Tail(fields)) * 3
          + IndexIn(HeaderNames, Head(fields)[1]) * 5
          + IndexIn(HeaderValues, Head(fields)[2])) % HashSpace
hash_path(path) == (IndexIn(Paths, path) * 2) % HashSpace
py_hash(t) == (hash_bytes(t[1]) * 9 + hash_fields(t[2]) * 3 + hash_path(t[3])) % HashSpace

\* hash((message.raw_content, message.headers.fields, getattr(message, "path", None)))
fingerprint_no_path(message) ==
    py_hash(<< message.raw_content, message.fields, "None" >>)
flow_modify_cache_invalidation(message) ==
    py_hash(<< message.raw_content, message.fields, getattr_path(message) >>)

\* ------------------------------------------------------- transform provider
ViewModes == { "auto", "hex" }

\* contentviews.views: the registered views, by name
contentviews_views == << [name |-> "Auto"], [name |-> "Hex"] >>
\* str.lower() on the names and selections of the model
lower(name) ==
    CASE name = "Auto" -> "auto"
      [] name = "Hex"  -> "hex"
      [] OTHER         -> name
\* contentviews.get(name): the view of that name, whatever its case
contentviews_get(name) ==
    contentviews_views[CHOOSE i \in 1 .. Len(contentviews_views) :
                           lower(contentviews_views[i].name) = lower(name)]
NoError == "None"
TextLine(n) == << Seg("text", "t", n) >>
HexLine(n) == << Seg("offset", "o", 10), Seg("text", "t", n) >>

\* contentviews.get_message_content_view(viewmode, message): a pure function
\* of its arguments, returning (description, lines, error)
get_message_content_view(viewmode, message) ==
    LET d == message.raw_content.data
        desc == IF viewmode = "hex" THEN "Hex" ELSE "Raw"
        mkline(n) == IF viewmode = "hex" THEN HexLine(n) ELSE TextLine(n)
    IN  CASE d = ""    -> [description |-> "No content", lines |-> << >>, error |-> NoError]
          [] d = "a"   -> [description |-> desc, lines |-> << mkline(1) >>, error |-> NoError]
          [] d = "big" -> [description |-> desc,
                           lines |-> << mkline(30000), mkline(30000), mkline(5) >>,
                           error |-> NoError]
          [] OTHER     -> [description |-> "Couldn't parse: falling back to Raw",
                           lines |-> IF viewmode = "hex" THEN << >> ELSE << TextLine(3) >>,
                           error |-> "Content viewer failed"]

\* ------------------------------------------------------- the content renderer
NoLog == << >>
add_log(text, level) == << text, level >>

\* the log call made for a provider result
provider_log_silent(r) == NoLog
provider_log(r) == IF r.error # NoError THEN add_log(r.error, "error") ELSE NoLog

\* the body of _get_content_view (what runs on a cache miss)
get_content_view_body(viewmode, max_lines, message) ==
    LET r == get_message_content_view(viewmode, message)
        description ==
            IF r.description = "No content" /\ message.role = "request"
            THEN "No request content (press tab to view response)"
            ELSE r.description
    IN  [ret |-> << description, OuterLoop(r.lines, 1, << >>, 0, max_lines) >>,
         log |-> provider_log(r)]

\* functools.lru_cache: the cache is a sequence of entries, least recently
\* used first
NoKey == << "none", 0, 0 >>
cache_find_never(c, key) == 0
cache_find(c, key) ==
    IF \E i \in 1 .. Len(c) : c[i].key = key
    THEN CHOOSE i \in 1 .. Len(c) : c[i].key = key
    ELSE 0

RemoveAt(c, i) == SubSeq(c, 1, i - 1) \o SubSeq(c, i + 1, Len(c))

\* room for a new entry: a full cache drops the entry at the old end
lru_make_room_newest(c) == IF Len(c) >= lru_maxsize THEN SubSeq(c, 1, Len(c) - 1) ELSE c
lru_make_room(c) == IF Len(c) >= lru_maxsize THEN Tail(c) ELSE c

\* _get_content_view(viewmode, max_lines, h) through @lru_cache(maxsize=200)
get_content_view(c, viewmode, max_lines, h, message) ==
    LET key == << viewmode, max_lines, h >>
        i == cache_find(c, key)
    IN  IF i # 0
        THEN [ret |-> c[i].val, cache |-> Append(RemoveAt(c, i), c[i]),
              called |-> FALSE, lookup |-> TRUE, key |-> key, log |-> NoLog,
              offband |-> message]
        ELSE LET b == get_content_view_body(viewmode, max_lines, message)
                 room == lru_make_room(c)
             IN  [ret |-> b.ret, cache |-> Append(room, [key |-> key, val |-> b.ret]),
                  called |-> TRUE, lookup |-> TRUE, key |-> key, log |-> b.log,
                  offband |-> NoMessage]

ContentMissing == << "", << << Seg("error", "[content missing]", 17) >> >> >>

budget_of_cutoff(full) == VIEW_CUTOFF
budget_of(full) == IF full THEN sys_maxsize ELSE VIEW_CUTOFF

\* content_view(viewmode, message) with the fullcontents setting `full`,
\* the cache c and the off-band field ob
content_view_no_check(c, ob, viewmode, message, full) ==
    get_content_view(c, viewmode, budget_of(full),
                     flow_modify_cache_invalidation(message), message)
content_view(c, ob, viewmode, message, full) ==
    IF message.raw_content = None_content
    THEN [ret |-> ContentMissing, cache |-> c, called |-> FALSE, lookup |-> FALSE,
          key |-> NoKey, log |-> NoLog, offband |-> ob]
    ELSE get_content_view(c, viewmode, budget_of(full),
                          flow_modify_cache_invalidation(message), message)

\* the messages content_view is called with: absent, empty, plain and
\* unparsable content, with one header and one path variation
Hdr0 == << >>
Hdr1 == << << "x", "1" >> >>
RenderMessages ==
    { Message("request", None_content, Hdr0, "None"),
      Message("request", Raw("identity", ""), Hdr0, "None"),
      Message("request", Raw("identity", "a"), Hdr0, "None"),
      Message("request", Raw("identity", "a"), Hdr1, "None"),
      Message("request", Raw("identity", "a"), Hdr0, "/p"),
      Message("request", Raw("identity", "bad"), Hdr0, "None"),
      Message("response", None_content, Hdr0, "None"),
      Message("response", Raw("identity", ""), Hdr0, "None"),
      Message("response", Raw("identity", "a"), Hdr0, "None") }

\* the (viewmode, message, fullcontents) of the calls: every message in
\* the default view mode and budget; the other view mode for the messages
\* without content, with plain and with unparsable content; the unlimited
\* budget for the messages without content and one with content
RenderInputs ==
    { << "auto", m, FALSE >> : m \in RenderMessages }
    \cup { << "hex", m, FALSE >> :
             m \in { Message("request", None_content, Hdr0, "None"),
                     Message("request", Raw("identity", "a"), Hdr0, "None"),
                     Message("request", Raw("identity", "bad"), Hdr0, "None") } }
    \cup { << v, Message("request", None_content, Hdr0, "None"), TRUE >> : v \in ViewModes }
    \cup { << "auto", Message("response", None_content, Hdr0, "None"), TRUE >>,
           << "auto", Message("request", Raw("identity", "a"), Hdr0, "None"), TRUE >> }

\* ------------------------------------------------- Message operations
RECURSIVE fields_remove(_, _)
fields_remove(fields, name) ==
    IF fields = << >> THEN << >>
    ELSE IF Head(fields)[1] = name THEN fields_remove(Tail(fields), name)
    ELSE << Head(fields) >> \o fields_remove(Tail(fields), name)

\* headers[name] = value
fields_set(fields, name, value) ==
    IF \E i \in 1 .. Len(fields) : fields[i][1] = name
    THEN [i \in 1 .. Len(fields) |->
            IF fields[i][1] = name THEN << name, value >> ELSE fields[i]]
    ELSE Append(fields, << name, value >>)

content_encoding(conn) == headers_get(conn.fields, "content-encoding", "identity")

\* conn.decode() raises ValueError: the bytes are not in the declared coding
decode_fails(conn) ==
    /\ conn.raw_content # None_content
    /\ conn.raw_content.coding # content_encoding(conn)

\* conn.decode() when it succeeds
decode(conn) ==
    [conn EXCEPT
        !.raw_content = IF conn.raw_content = None_content THEN None_content
                        ELSE Raw("identity", conn.raw_content.data),
        !.fields = fields_remove(conn.fields, "content-encoding")]

\* conn.encode(e)
encode(conn, e) ==
    [conn EXCEPT
        !.raw_content = IF conn.raw_content = None_content THEN None_content
                        ELSE Raw(e, conn.raw_content.data),
        !.fields = fields_set(conn.fields, "content-encoding", e)]

\* conn.content = None
clear_content(conn) == [conn EXCEPT !.raw_content = None_content]

encoding_map(k) == CASE k = "z" -> "gzip" [] k = "d" -> "deflate" [] OTHER -> "br"

\* --------------------------------------------------------------- Flow model
NoBackup ==
    [has |-> FALSE, request |-> NoMessage, response |-> NoMessage, intercepted |-> FALSE]

Flow(request, response, intercepted, killable) ==
    [request |-> request, response |-> response, intercepted |-> intercepted,
     killable |-> killable, backup |-> NoBackup]

NoFlow == Flow(NoMessage, NoMessage, FALSE, FALSE)

\* flow.get_state()
get_state(f) ==
    [has |-> TRUE, request |-> f.request, response |-> f.response,
     intercepted |-> f.intercepted]

\* flow.backup(): keep the snapshot of the edit session, or take one
backup(f) == IF f.backup.has THEN f ELSE [f EXCEPT !.backup = get_state(f)]

\* flow.modified()
modified(f) == f.backup.has /\ f.backup # get_state(f)

\* flow.revert()
revert(f) ==
    IF f.backup.has
    THEN [f EXCEPT !.request = f.backup.request, !.response = f.backup.response,
                   !.intercepted = f.backup.intercepted, !.backup = NoBackup]
    ELSE f

\* flow.resume()
resume(f) == [f EXCEPT !.intercepted = FALSE]

\* flow.kill()
kill(f) == [f EXCEPT !.intercepted = FALSE, !.killable = FALSE]

\* flow.copy(): a new flow with copies of the messages, not live
copy(f) == Flow(f.request, f.response, f.intercepted, FALSE)

\* ------------------------------------------------------- flow collection
\* view.index(flow), 0-based
view_index(v, f) == (CHOOSE i \in 1 .. Len(v) : v[i] = f) - 1
\* view.inbounds(idx)
inbounds(v, i) == 0 <= i /\ i < Len(v)
\* view[idx], 0-based
view_at(v, i) == v[i + 1]
\* view.remove(flow)
view_remove(v, f) == SelectSeq(v, LAMBDA x : x # f)
\* view.focus.flow after view.remove(flow): the flow now at the index of
\* the removed one, the last flow if it was last, None (0) if none remain
focus_after_remove(v, f) ==
    LET w == view_remove(v, f)
        i == view_index(v, f)
    IN  IF w = << >> THEN 0
        ELSE IF i < Len(w) THEN w[i + 1] ELSE w[Len(w)]

\* ------------------------------------------------------ view-state store
NoSettings == [t \in 0 .. 2 |-> [prettyview |-> "unset", fullcontents |-> FALSE]]
default_contentview == "auto"

\* ------------------------------------------------------------ the state
VARIABLES
    lines,          \* the provider lines being cut (truncation loop)
    max_lines,      \* the line budget of the loop
    idx,            \* position of "for line in lines" (1-based)
    total_chars,    \* the running total
    text_objects,   \* the lines emitted so far
    pc,             \* "loop" | "done"
    cache,          \* the lru_cache of _get_content_view
    offband,        \* self._get_content_view_message
    ncalls,         \* invocations of the transform provider so far
    used,           \* history: the cached keys, in the order of their last use
    last,           \* the last content_view call: arguments, result, effects
    view,           \* master.view: the flows of the collection, in order
    flows,          \* the flow objects, by identity
    focus,          \* master.view.focus.flow (0: None)
    tab_offset,     \* the active tab
    settings,       \* master.view.settings
    screen,         \* "flowview" | "flowlist"
    prompt,         \* the open chooser or status prompt, if any
    out,            \* what the last event sent: status, signals, log, return
    nevents         \* input events so far

tvars == << lines, max_lines, idx, total_chars, text_objects, pc >>
rvars == << cache, offband, ncalls, used, last >>
dvars == << view, flows, focus, tab_offset, settings, screen, prompt, out, nevents >>
vars == << tvars, rvars, dvars >>

FlowIds == 1 .. MaxFlows

NoRender ==
    [viewmode |-> "none", full |-> FALSE, message |-> NoMessage, ret |-> << "", << >> >>,
     key |-> NoKey, called |-> FALSE, lookup |-> FALSE, log |-> NoLog,
     calls_before |-> 0, rel |-> "first"]

NoPrompt == [kind |-> "none", flow |-> 0, tab |-> 0]
Prompt(kind, f, t) == [kind |-> kind, flow |-> f, tab |-> t]

\* arg: what the event came with besides the key (the chooser's selection,
\* the exception of an external call)
Out(key, status, flow_change, log, ret, effect) ==
    [key |-> key, arg |-> "none", status |-> status, flow_change |-> flow_change,
     log |-> log, ret |-> ret, effect |-> effect]
OutArg(arg, o) == [o EXCEPT !.arg = arg]
NoOut == Out("none", "none", FALSE, NoLog, "None", "none")

\* the flows captured before the view is opened
GzipHdr == << << "content-encoding", "gzip" >> >>
FlowA ==
    Flow(Message("request", Raw("identity", "big"), Hdr0, "/p"),
         Message("response", Raw("gzip", "a"), GzipHdr, "None"),
         FALSE, FALSE)
FlowB ==
    Flow(Message("request", Raw("identity", "a"), GzipHdr, "/q"),
         NoMessage, TRUE, TRUE)

TruncIdle ==
    /\ lines = << >>
    /\ max_lines = 0
    /\ idx = 1
    /\ total_chars = 0
    /\ text_objects = << >>
    /\ pc = "done"

RenderInit ==
    /\ cache = << >>
    /\ offband = NoMessage
    /\ ncalls = 0
    /\ used = << >>
    /\ last = NoRender

\* FlowView(master): FlowDetails(master, 0) on the focused flow
DispInit ==
    /\ view = << 1, 2 >>
    /\ flows = [f \in FlowIds |-> IF f = 1 THEN FlowA ELSE IF f = 2 THEN FlowB ELSE NoFlow]
    /\ focus \in { 1, 2 }
    /\ tab_offset = TAB_REQ
    /\ settings = [f \in FlowIds |-> NoSettings]
    /\ screen = "flowview"
    /\ prompt = NoPrompt
    /\ out = NoOut
    /\ nevents = 0

DispIdle ==
    /\ view = << 1, 2 >>
    /\ flows = [f \in FlowIds |-> IF f = 1 THEN FlowA ELSE IF f = 2 THEN FlowB ELSE NoFlow]
    /\ focus = 1
    /\ tab_offset = TAB_REQ
    /\ settings = [f \in FlowIds |-> NoSettings]
    /\ screen = "flowview"
    /\ prompt = NoPrompt
    /\ out = NoOut
    /\ nevents = 0

\* ---------------------------------------------- truncation loop, stepwise
TruncInit ==
    /\ lines \in ProviderLines
    /\ max_lines \in 0 .. MaxBudget
    /\ idx = 1
    /\ total_chars = 0
    /\ text_objects = << >>
    /\ pc = "loop"
    /\ RenderInit
    /\ DispIdle

\* one pass of the body of "for line in lines"
LoopLine ==
    /\ pc = "loop"
    /\ idx <= Len(lines)
    /\ LET s == LineStep(lines[idx], text_objects, total_chars, max_lines)
       IN  /\ text_objects' = s.objs
           /\ total_chars' = s.total
           /\ pc' = IF s.stop THEN "done" ELSE "loop"
           /\ idx' = IF s.stop THEN idx ELSE idx + 1
    /\ UNCHANGED << lines, max_lines, rvars, dvars >>

\* the iterator is exhausted: fall through to the return
LoopExit ==
    /\ pc = "loop"
    /\ idx > Len(lines)
    /\ pc' = "done"
    /\ UNCHANGED << lines, max_lines, idx, total_chars, text_objects, rvars, dvars >>

TruncNext == LoopLine \/ LoopExit
TruncSpec == TruncInit /\ [][TruncNext]_vars

\* ------------------------------------------------ content_view, call by call
\* the fingerprinted values of a message
Triple(message) == << message.raw_content, message.fields, getattr_path(message) >>

\* how a call relates to the call before it: "same" arguments; the same kind
\* of message under the same view mode and budget with "changed" content,
\* header fields or path; "first" or "other"
RelationToLast(viewmode, message, full) ==
    IF last.viewmode = "none" THEN "first"
    ELSE IF viewmode = last.viewmode /\ full = last.full /\ message = last.message THEN "same"
    ELSE IF /\ viewmode = last.viewmode /\ full = last.full
            /\ message.role = last.message.role
            /\ message.raw_content # None_content
            /\ last.message.raw_content # None_content
            /\ Triple(message) # Triple(last.message)
         THEN "changed"
    ELSE "other"

\* the effect of one content_view call on the renderer's state
DoContentView(viewmode, message, full) ==
    LET r == content_view(cache, offband, viewmode, message, full)
    IN  /\ r.called => ncalls < MaxCalls
        /\ cache' = r.cache
        /\ offband' = r.offband
        /\ ncalls' = IF r.called THEN ncalls + 1 ELSE ncalls
        /\ last' = [viewmode |-> viewmode, full |-> full, message |-> message,
                    ret |-> r.ret, key |-> r.key, called |-> r.called,
                    lookup |-> r.lookup, log |-> r.log,
                    calls_before |-> ncalls,
                    rel |-> RelationToLast(viewmode, message, full)]
        /\ used' = IF last'.lookup
                   THEN SelectSeq(Append(SelectSeq(used, LAMBDA k : k # last'.key), last'.key),
                                  LAMBDA k : \E i \in 1 .. Len(cache') : cache'[i].key = k)
                   ELSE used

ContentViewCall ==
    \E in \in RenderInputs :
        /\ DoContentView(in[1], in[2], in[3])
        /\ UNCHANGED << tvars, dvars >>

RenderInitAll == TruncIdle /\ RenderInit /\ DispIdle
RenderNext == ContentViewCall
RenderSpec == RenderInitAll /\ [][RenderNext]_vars

\* ------------------------------------------------------ the dispatcher
\* self.flow
flow == flows[focus]

\* conn, as keypress computes it from the active tab
conn_of(f, t) ==
    IF t = TAB_REQ THEN f.request
    ELSE IF t = TAB_RESP THEN f.response
    ELSE NoMessage
conn == conn_of(flow, tab_offset)

set_conn(f, t, m) ==
    IF t = TAB_REQ THEN [f EXCEPT !.request = m] ELSE [f EXCEPT !.response = m]

\* viewmode_get()
viewmode_of_default(s, f, t) == default_contentview
viewmode_of(s, f, t) ==
    IF s[f][t].prettyview = "unset"
    THEN default_contentview
    ELSE s[f][t].prettyview
viewmode_get == viewmode_of(settings, focus, tab_offset)

\* tab_request() and tab_response(): the labels of the body tabs
tab_request_plain(f) == "Request"
tab_request(f) ==
    IF f.intercepted /\ f.response = NoMessage
    THEN "Request intercepted"
    ELSE "Request"
tab_response(f) ==
    IF f.intercepted /\ f.response # NoMessage
    THEN "Response intercepted"
    ELSE "Response"

\* the keys whose branches need a message: set("bfgmxvzEC")
BodyKeysNoDelete == { "b", "f", "g", "m", "v", "z", "E", "C" }
BodyKeys == { "b", "f", "g", "m", "x", "v", "z", "E", "C" }

\* a key reaches FlowDetails.keypress: the flow view is shown, no chooser
\* or prompt has the keyboard
Ready ==
    /\ screen = "flowview"
    /\ focus # 0
    /\ prompt = NoPrompt
    /\ nevents < MaxEvents

Event(o) ==
    /\ out' = o
    /\ nevents' = nevents + 1

\* tabs.Tabs.keypress: tab, l and h cycle the tab; the key comes back unhandled
KeyTab ==
    /\ Ready
    /\ \E key \in { "tab", "h" } :
        /\ tab_offset' = IF key = "tab" THEN (tab_offset + 1) % 3 ELSE (tab_offset + 2) % 3
        /\ Event(Out(key, "none", FALSE, NoLog, key, "none"))
    /\ UNCHANGED << view, flows, focus, settings, screen, prompt, tvars, rvars >>

\* up, down, page up, page down: passed to the wrapped widget
KeyScroll ==
    /\ Ready
    /\ Event(Out("down", "none", FALSE, NoLog, "None", "scroll"))
    /\ UNCHANGED << view, flows, focus, tab_offset, settings, screen, prompt, tvars, rvars >>

\* "a": self.flow.resume(); self.master.view.update(self.flow)
KeyAccept ==
    /\ Ready
    /\ flows' = [flows EXCEPT ![focus] = resume(flow)]
    /\ Event(Out("a", "none", FALSE, NoLog, "None", "resume"))
    /\ UNCHANGED << view, focus, tab_offset, settings, screen, prompt, tvars, rvars >>

\* "A": resume every intercepted flow of the view
KeyAcceptAll ==
    /\ Ready
    /\ flows' = [f \in FlowIds |->
                    IF (\E i \in 1 .. Len(view) : view[i] = f) /\ flows[f].intercepted
                    THEN resume(flows[f]) ELSE flows[f]]
    /\ Event(Out("A", "none", FALSE, NoLog, "None", "resume"))
    /\ UNCHANGED << view, focus, tab_offset, settings, screen, prompt, tvars, rvars >>

\* "d": kill if killable, remove from the view, show the new focus or the list
key_delete_kill_always(f) == "kill"
key_delete_kill(f) == IF f.killable THEN "kill" ELSE "none"

KeyDelete ==
    /\ Ready
    /\ LET nf == focus_after_remove(view, focus)
       IN  /\ view' = view_remove(view, focus)
           /\ flows' = [flows EXCEPT ![focus] = NoFlow]
           /\ settings' = [settings EXCEPT ![focus] = NoSettings]
           /\ focus' = nf
           /\ screen' = IF nf = 0 THEN "flowlist" ELSE "flowview"
           /\ Event(Out("d", "none", FALSE, NoLog, "None", key_delete_kill(flow)))
    /\ UNCHANGED << tab_offset, prompt, tvars, rvars >>

\* "D": copy the flow, add the copy to the view, focus and show it
KeyDuplicate ==
    /\ Ready
    /\ \E cp \in FlowIds :
        /\ \A i \in 1 .. Len(view) : view[i] # cp
        /\ \A g \in FlowIds : (\A i \in 1 .. Len(view) : view[i] # g) => cp <= g
        /\ flows' = [flows EXCEPT ![cp] = copy(flow)]
        /\ view' = Append(view, cp)
        /\ focus' = cp
    /\ Event(Out("D", "Duplicated.", FALSE, NoLog, "None", "none"))
    /\ UNCHANGED << tab_offset, settings, screen, prompt, tvars, rvars >>

\* view[idx] (a negative index counts from the end)
view_at_py(v, i) == IF i < 0 THEN v[Len(v) + i + 1] ELSE v[i + 1]

\* _view_nextprev_flow(idx, flow): the flow to show and the status message
view_nextprev_flow_no_lower(v, i, cur) ==
    IF ~(i < Len(v))
    THEN [focus |-> cur, status |-> "No more flows"]
    ELSE [focus |-> view_at_py(v, i), status |-> "none"]
view_nextprev_flow(v, i, cur) ==
    IF ~inbounds(v, i)
    THEN [focus |-> cur, status |-> "No more flows"]
    ELSE [focus |-> view_at_py(v, i), status |-> "none"]

\* "p": view_prev_flow(self.flow)
KeyPrev ==
    /\ Ready
    /\ LET r == view_nextprev_flow(view, view_index(view, focus) - 1, focus)
       IN  /\ focus' = r.focus
           /\ Event(Out("p", r.status, FALSE, NoLog, "None", "none"))
    /\ UNCHANGED << view, flows, tab_offset, settings, screen, prompt, tvars, rvars >>

\* view_next_flow(self.flow)
ViewNextFlow ==
    /\ Ready
    /\ LET r == view_nextprev_flow(view, view_index(view, focus) + 1, focus)
       IN  /\ focus' = r.focus
           /\ Event(Out("next", r.status, FALSE, NoLog, "None", "none"))
    /\ UNCHANGED << view, flows, tab_offset, settings, screen, prompt, tvars, rvars >>

\* "r": replay; a ReplayException is logged, flow_change is sent either way
key_replay_propagate(fails) ==
    [log |-> NoLog, flow_change |-> ~fails, ret |-> IF fails THEN "raise" ELSE "None"]
key_replay(fails) ==
    [log |-> IF fails THEN add_log("Replay error", "warn") ELSE NoLog,
     flow_change |-> TRUE, ret |-> "None"]

KeyReplay ==
    /\ Ready
    /\ \E fails \in BOOLEAN :
        LET r == key_replay(fails)
        IN  Event(OutArg(IF fails THEN "ReplayException" ELSE "none",
                         Out("r", "none", r.flow_change, r.log, r.ret, "replay")))
    /\ UNCHANGED << view, flows, focus, tab_offset, settings, screen, prompt, tvars, rvars >>

\* "V": the flow and the messages sent by the revert branch
key_revert_unchecked(f) ==
    [flow |-> revert(f), flow_change |-> TRUE, status |-> "Reverted."]
key_revert(f) ==
    IF modified(f)
    THEN [flow |-> revert(f), flow_change |-> TRUE, status |-> "Reverted."]
    ELSE [flow |-> f, flow_change |-> FALSE, status |-> "Flow not modified."]

KeyRevert ==
    /\ Ready
    /\ LET r == key_revert(flow)
       IN  /\ flows' = [flows EXCEPT ![focus] = r.flow]
           /\ Event(Out("V", r.status, r.flow_change, NoLog, "None", "none"))
    /\ UNCHANGED << view, focus, tab_offset, settings, screen, prompt, tvars, rvars >>

\* "W" and "|": ask for a path
KeyPathPrompt ==
    /\ Ready
    /\ \E key \in { "W", "|" } :
        /\ prompt' = Prompt("path", focus, tab_offset)
        /\ Event(Out(key, "none", FALSE, NoLog, "None", "none"))
    /\ UNCHANGED << view, flows, focus, tab_offset, settings, screen, tvars, rvars >>

\* a body key without a message: key in set("bfgmxvzEC") and not conn
KeyRejected ==
    /\ Ready
    /\ conn = NoMessage
    /\ \E key \in BodyKeys :
        Event(Out(key, "Tab to the request or response", FALSE, NoLog, "None", "none"))
    /\ UNCHANGED << view, flows, focus, tab_offset, settings, screen, prompt, tvars, rvars >>

\* the later branches are reached by a body key only with a message
BodyKey(key) ==
    /\ Ready
    /\ ~(key \in BodyKeys /\ conn = NoMessage)

\* "b": common.ask_save_body
KeySaveBody ==
    /\ BodyKey("b")
    /\ prompt' = Prompt("save_body", focus, tab_offset)
    /\ Event(Out("b", "none", FALSE, NoLog, "None", "none"))
    /\ UNCHANGED << view, flows, focus, tab_offset, settings, screen, tvars, rvars >>

\* "f": fullcontents = True for this flow and tab
KeyFull ==
    /\ BodyKey("f")
    /\ settings' = [settings EXCEPT ![focus][tab_offset].fullcontents = TRUE]
    /\ Event(Out("f", "Loading all body data...", TRUE, NoLog, "None", "none"))
    /\ UNCHANGED << view, flows, focus, tab_offset, screen, prompt, tvars, rvars >>

\* "m": open the display mode chooser
KeyMode ==
    /\ BodyKey("m")
    /\ prompt' = Prompt("chooser", focus, tab_offset)
    /\ Event(Out("m", "none", FALSE, NoLog, "None", "none"))
    /\ UNCHANGED << view, flows, focus, tab_offset, settings, screen, tvars, rvars >>

\* "E" and "C": pass
KeyExport ==
    /\ \E key \in { "E", "C" } :
        /\ BodyKey(key)
        /\ Event(Out(key, "none", FALSE, NoLog, "None", "none"))
    /\ UNCHANGED << view, flows, focus, tab_offset, settings, screen, prompt, tvars, rvars >>

\* "x": conn.content = None
KeyDeleteBody ==
    /\ BodyKey("x")
    /\ flows' = [flows EXCEPT ![focus] = set_conn(flow, tab_offset, clear_content(conn))]
    /\ Event(Out("x", "none", TRUE, NoLog, "None", "none"))
    /\ UNCHANGED << view, focus, tab_offset, settings, screen, prompt, tvars, rvars >>

\* "v": spawn the external viewer when there is content and $EDITOR or $PAGER
KeyViewExternal ==
    /\ BodyKey("v")
    /\ \E configured \in BOOLEAN :
        Event(IF conn.raw_content \in { None_content, Raw("identity", "") }
              THEN Out("v", "none", FALSE, NoLog, "None", "none")
              ELSE IF configured
              THEN Out("v", "none", FALSE, NoLog, "None", "spawn_external_viewer")
              ELSE Out("v", "Error! Set $EDITOR or $PAGER.", FALSE, NoLog, "None", "none"))
    /\ UNCHANGED << view, flows, focus, tab_offset, settings, screen, prompt, tvars, rvars >>

\* "z": backup, then decode in place or ask for an encoding
\* the "z" branch on flow f and tab t: the flow afterwards, the status
\* message and whether the encoding prompt is opened
key_encdec_no_except(f, t) ==
    LET saved == backup(f)
        c == conn_of(saved, t)
    IN  IF content_encoding(c) # "identity"
        THEN [flow |-> set_conn(saved, t, decode(c)), status |-> "none", ask |-> FALSE]
        ELSE [flow |-> saved, status |-> "none", ask |-> TRUE]
key_encdec(f, t) ==
    LET saved == backup(f)
        c == conn_of(saved, t)
    IN  IF content_encoding(c) # "identity"
        THEN IF decode_fails(c)
             THEN [flow |-> saved, status |-> "Could not decode - invalid data?",
                   ask |-> FALSE]
             ELSE [flow |-> set_conn(saved, t, decode(c)), status |-> "none", ask |-> FALSE]
        ELSE [flow |-> saved, status |-> "none", ask |-> TRUE]

KeyEncDec ==
    /\ BodyKey("z")
    /\ LET r == key_encdec(flow, tab_offset)
       IN  /\ flows' = [flows EXCEPT ![focus] = r.flow]
           /\ prompt' = IF r.ask THEN Prompt("encoding", focus, tab_offset) ELSE prompt
           /\ Event(Out("z", r.status, TRUE, NoLog, "None", "none"))
    /\ UNCHANGED << view, focus, tab_offset, settings, screen, tvars, rvars >>

\* any other key: returned to the caller
KeyUnhandled ==
    /\ \E key \in { "g", "e", "q" } :
        /\ BodyKey(key)
        /\ Event(Out(key, "none", FALSE, NoLog, key, "none"))
    /\ UNCHANGED << view, flows, focus, tab_offset, settings, screen, prompt, tvars, rvars >>

\* a prompt or chooser has the keyboard
Prompted(kind) ==
    /\ screen = "flowview"
    /\ prompt.kind = kind
    /\ nevents < MaxEvents

\* encode_callback(key, conn)
EncodeCallback ==
    /\ Prompted("encoding")
    /\ \E key \in { "z", "d", "b" } :
        LET f == flows[prompt.flow]
            c == conn_of(f, prompt.tab)
        IN  /\ flows' = [flows EXCEPT ![prompt.flow] =
                            set_conn(f, prompt.tab, encode(c, encoding_map(key)))]
            /\ Event(Out("encode_callback", "none", TRUE, NoLog, "None", "none"))
    /\ prompt' = NoPrompt
    /\ UNCHANGED << view, focus, tab_offset, settings, screen, tvars, rvars >>

\* change_this_display_mode(t)
ChangeThisDisplayMode ==
    /\ Prompted("chooser")
    /\ \E t \in { lower(contentviews_views[i].name) : i \in 1 .. Len(contentviews_views) } :
        /\ settings' = [settings EXCEPT ![focus][tab_offset].prettyview =
                                            lower(contentviews_get(t).name)]
        /\ Event(OutArg(t, Out("change_this_display_mode", "none", TRUE, NoLog,
                                "None", "none")))
    /\ prompt' = NoPrompt
    /\ UNCHANGED << view, flows, focus, tab_offset, screen, tvars, rvars >>

\* the chooser or prompt is left without a selection, or its external
\* callback has run
PromptClose ==
    /\ screen = "flowview"
    /\ prompt # NoPrompt
    /\ nevents < MaxEvents
    /\ prompt' = NoPrompt
    /\ Event(Out("close", "none", FALSE, NoLog, "None", "none"))
    /\ UNCHANGED << view, flows, focus, tab_offset, settings, screen, tvars, rvars >>

\* a redraw of a body tab: conn_text(conn) calls content_view
Redraw ==
    /\ screen = "flowview"
    /\ focus # 0
    /\ nevents < MaxEvents
    /\ conn # NoMessage
    /\ DoContentView(viewmode_get, conn, settings[focus][tab_offset].fullcontents)
    /\ Event(Out("redraw", "none", FALSE, NoLog, "None", "none"))
    /\ UNCHANGED << view, flows, focus, tab_offset, settings, screen, prompt, tvars >>

Init == TruncIdle /\ RenderInit /\ DispInit

Next ==
    \/ KeyTab
    \/ KeyScroll
    \/ KeyAccept
    \/ KeyAcceptAll
    \/ KeyDelete
    \/ KeyDuplicate
    \/ KeyPrev
    \/ ViewNextFlow
    \/ KeyReplay
    \/ KeyRevert
    \/ KeyPathPrompt
    \/ KeyRejected
    \/ KeySaveBody
    \/ KeyFull
    \/ KeyMode
    \/ KeyExport
    \/ KeyDeleteBody
    \/ KeyViewExternal
    \/ KeyEncDec
    \/ KeyUnhandled
    \/ EncodeCallback
    \/ ChangeThisDisplayMode
    \/ PromptClose
    \/ Redraw

Spec == Init /\ [][Next]_vars

\* ------------------------------------------------------------ properties
RECURSIVE CharsOfLine(_)
CharsOfLine(line) == IF line = << >> THEN 0 ELSE Head(line).len + CharsOfLine(Tail(line))
RECURSIVE CharsOf(_)
CharsOf(objs) == IF objs = << >> THEN 0 ELSE CharsOfLine(Head(objs)) + CharsOf(Tail(objs))

IsNotice(line) ==
    /\ Len(line) = 3
    /\ line[1].text = "Stopped displaying data after %d lines. Press "
ContentLines(objs) == SelectSeq(objs, LAMBDA l : ~IsNotice(l))
NoticeCount(objs) == Len(objs) - Len(ContentLines(objs))

\* C1: for every budget L and provider output, the characters of the content
\* lines emitted (the notice line excluded) never exceed L * 80.
C1_TruncationBound ==
    CharsOf(ContentLines(text_objects)) <= max_lines * 80

\* a run where the provider had more than the budget and the budget was filled
C1_Witness ==
    /\ pc = "done"
    /\ max_lines >= 1
    /\ CharsOf(lines) > max_lines * 80
    /\ CharsOf(ContentLines(text_objects)) = max_lines * 80

\* the finished loop left something of the provider output out
Truncated == pc = "done" /\ ContentLines(text_objects) # lines

\* C2: when the loop truncated the provider output, the result holds exactly
\* one notice line and it is the last line.
C2_NoticeAfterTruncation ==
    Truncated =>
        /\ NoticeCount(text_objects) = 1
        /\ IsNotice(text_objects[Len(text_objects)])

\* a segment was cut short and a later line was dropped
C2_Witness ==
    /\ Truncated
    /\ Len(lines) = 2
    /\ Len(text_objects) = 2
    /\ CharsOf(lines) > CharsOf(ContentLines(text_objects))
    /\ IsNotice(text_objects[2])

\* C3: a content_view call with the same view mode, budget and unchanged
\* message as the call before it returns the same (description, lines), and
\* the provider ran at most once over the two calls.
C3_RepeatedRenderHitsCache ==
    [][ (last'.rel = "same")
            => /\ last'.ret = last.ret
               /\ ncalls' - last.calls_before <= 1 ]_vars

\* the second of two equal calls on a message with content was a cache hit
C3_Witness ==
    /\ last.rel = "same"
    /\ last.lookup
    /\ ~last.called
    /\ ncalls = last.calls_before
    /\ ncalls >= 1

KeyOf(viewmode, message, full) == << viewmode, budget_of(full), py_hash(Triple(message)) >>
InCache(c, key) == \E i \in 1 .. Len(c) : c[i].key = key

C5_ContentMissing ==
    [][ (last'.viewmode # "none" /\ last'.message.raw_content = None_content)
            => /\ last'.ret = ContentMissing
               /\ ~last'.called
               /\ ~last'.lookup
               /\ cache' = cache
               /\ ncalls' = ncalls ]_vars

\* a message without content was rendered with fullcontents set while the
\* cache held entries
C5_Witness ==
    /\ last.message.raw_content = None_content
    /\ last.viewmode = "hex"
    /\ last.full
    /\ last.ret = ContentMissing
    /\ Len(cache) = 2

ProviderOf(call) == get_message_content_view(call.viewmode, call.message)
ProviderFailed(call) == call.called /\ ProviderOf(call).error # NoError

\* C10 as stated: a provider error on a cache miss is logged at warning
\* severity and the lines produced are still returned and cached.
C10_ProviderErrorWarned ==
    ProviderFailed(last) =>
        /\ last.log = add_log(ProviderOf(last).error, "warn")
        /\ last.ret[2] = OuterLoop(ProviderOf(last).lines, 1, << >>, 0, budget_of(last.full))
        /\ cache[Len(cache)] = [key |-> last.key, val |-> last.ret]

\* C10 amended: the error is logged at severity "error"; the lines produced
\* (possibly none) are still returned and cached.
C10_ProviderErrorLogged ==
    ProviderFailed(last) =>
        /\ last.log = add_log(ProviderOf(last).error, "error")
        /\ last.ret[2] = OuterLoop(ProviderOf(last).lines, 1, << >>, 0, budget_of(last.full))
        /\ cache[Len(cache)] = [key |-> last.key, val |-> last.ret]

\* the provider failed after producing a line, and the line was returned
C10_Witness ==
    /\ ProviderFailed(last)
    /\ last.log # NoLog
    /\ Len(last.ret[2]) = 1

\* the step is the event `key`
Pressed(key) == nevents' = nevents + 1 /\ out'.key = key

\* C6: on the Detail tab the keys b, f, m, x, v, z, E and C are rejected with
\* the notice and change nothing: no setting, no message, no backup, no
\* chooser or prompt, no flow_change signal, no external effect.
C6_DetailTabRejectsBodyKeys ==
    [][ \A key \in { "b", "f", "m", "x", "v", "z", "E", "C" } :
            (tab_offset = TAB_DETAIL /\ Pressed(key))
                => /\ out'.status = "Tab to the request or response"
                   /\ out'.ret = "None"
                   /\ ~out'.flow_change
                   /\ out'.effect = "none"
                   /\ out'.log = NoLog
                   /\ UNCHANGED << view, flows, focus, tab_offset, settings, screen,
                                   prompt, rvars >> ]_vars

\* delete-body was pressed on the Detail tab and rejected
C6_Witness ==
    /\ tab_offset = TAB_DETAIL
    /\ out.key = "x"
    /\ out.status = "Tab to the request or response"
    /\ flows[1] = FlowA
    /\ flows[2] = FlowB

\* the flow an event edits: the focused one, or the one the prompt was
\* opened for
Edited == IF prompt.kind = "encoding" THEN prompt.flow ELSE focus

\* C7: delete-body, decode and encode call flow.backup() before they change
\* the message, so that on a flow that was not modified a single revert
\* ("V") afterwards restores the content and encoding from before the action.
C7_BackupBeforeEveryEdit ==
    [][ \A key \in { "x", "z", "encode_callback" } :
            (Pressed(key) /\ ~modified(flows[Edited]))
                => LET reverted == key_revert(flows'[Edited]).flow
                   IN  /\ reverted.request = flows[Edited].request
                       /\ reverted.response = flows[Edited].response ]_vars

\* C8: prev at the first flow and next at the last flow leave focus and tab
\* unchanged and report "No more flows"; otherwise the focus moves to the
\* flow at index - 1 / index + 1.
C8_NavigationBoundary ==
    [][ \A d \in { -1, 1 } :
            Pressed(IF d = -1 THEN "p" ELSE "next")
                => LET i == view_index(view, focus) + 1 + d
                   IN  /\ tab_offset' = tab_offset
                       /\ view' = view
                       /\ IF i >= 1 /\ i <= Len(view)
                          THEN focus' = view[i] /\ out'.status = "none"
                          ELSE focus' = focus /\ out'.status = "No more flows" ]_vars

\* prev was pressed on the first of several flows
C8_Witness ==
    /\ out.key = "p"
    /\ out.status = "No more flows"
    /\ Len(view) = 3
    /\ focus = view[1]

\* C9: "V" on a flow that is not modified reports "Flow not modified." and
\* changes nothing (no revert, no flow_change); on a modified flow it
\* restores the snapshot and modified() is false afterwards; a backup
\* followed by a revert with no edit between leaves the flow as it was.
C9_Revert ==
    [][ Pressed("V")
            => LET f == flow
                   g == flows'[focus]
               IN  /\ IF modified(f)
                      THEN /\ get_state(g) = f.backup
                           /\ ~modified(g)
                           /\ out'.status = "Reverted."
                           /\ out'.flow_change
                      ELSE /\ out'.status = "Flow not modified."
                           /\ ~out'.flow_change
                           /\ UNCHANGED << view, flows, focus, tab_offset, settings,
                                           screen, prompt, rvars >>
                   /\ ~g.backup.has
                         => /\ get_state(revert(backup(g))) = get_state(g)
                            /\ ~modified(revert(backup(g)))
                   /\ \A h \in FlowIds : h # focus => flows'[h] = flows[h] ]_vars

\* an encoded flow was reverted: the snapshot is gone and the content is the
\* original again
C9_Witness ==
    /\ out.key = "V"
    /\ out.status = "Reverted."
    /\ focus = 1
    /\ flows[1] = FlowA
    /\ nevents >= 3

\* the content lines of the finished loop
Emitted == ContentLines(text_objects)

\* C19: with a line budget L of at least one line, the finished loop has
\* emitted at most L content lines (the notice line not counted), also when
\* the provider output holds empty lines.
C19_AtMostBudgetLines ==
    (pc = "done" /\ max_lines >= 1) => Len(Emitted) <= max_lines

\* C20: with a line budget L of at least one line, the finished loop has
\* appended the notice line only if it left something of the provider output
\* out; an output that fits the budget, also one that fills L * 80 characters
\* exactly, comes back without a notice line.
C20_NoticeOnlyIfOmitted ==
    (pc = "done" /\ max_lines >= 1 /\ NoticeCount(text_objects) >= 1)
        => Emitted # lines

RequestHint == "No request content (press tab to view response)"

\* C18: content_view never returns the request hint as the description of a
\* response, and a request whose provider description is "No content" gets
\* the hint, whatever was rendered before.
C18_HintOnlyForRequests ==
    /\ (last.viewmode # "none" /\ last.message.role = "response")
            => last.ret[1] # RequestHint
    /\ (/\ last.viewmode # "none"
        /\ last.message.role = "request"
        /\ last.message.raw_content # None_content
        /\ ProviderOf(last).description = "No content")
            => last.ret[1] = RequestHint

\* the step is a cache miss: the provider ran and an entry was inserted
Miss == ncalls' = ncalls + 1
\* entry i of the cache is gone after the step
Evicted(i) == ~InCache(cache', cache[i].key)

\* C12: the cache never holds more than maxsize entries; an entry leaves the
\* cache only when a new entry is inserted into a full cache, and it is then
\* the one entry whose last use (insertion or hit) is the oldest.
C12_BoundedLruCache ==
    [][ /\ Len(cache') <= lru_maxsize
        /\ \A i \in 1 .. Len(cache) :
              Evicted(i)
                  => /\ Miss
                     /\ Len(cache) = lru_maxsize
                     /\ \A j \in 1 .. Len(cache) :
                           j # i => IndexIn(used, cache[j].key) > IndexIn(used, cache[i].key)
        /\ (Miss /\ Len(cache) = lru_maxsize)
              => /\ Len(cache') = lru_maxsize
                 /\ InCache(cache', last'.key)
                 /\ \E i \in 1 .. Len(cache) : Evicted(i) ]_vars

\* more entries were inserted than the cache holds: the last call was a
\* miss on a full cache, and the cache is full again with its key at the
\* recent end
C12_Witness ==
    /\ last.called
    /\ ncalls = lru_maxsize + 1
    /\ Len(cache) = lru_maxsize
    /\ Len(used) = lru_maxsize
    /\ used[Len(used)] = last.key

InView(v, f) == \E i \in 1 .. Len(v) : v[i] = f
Tabs == { TAB_REQ, TAB_RESP, TAB_DETAIL }

\* "f" sets fullcontents of the focused flow and active tab, and of no other
FullSetHere ==
    /\ settings'[focus][tab_offset].fullcontents
    /\ \A f \in FlowIds, t \in Tabs :
          << f, t >> # << focus, tab_offset >>
              => settings'[f][t].fullcontents = settings[f][t].fullcontents

\* no step resets fullcontents of a flow that stays in the collection
FullStays ==
    \A f \in FlowIds, t \in Tabs :
        (settings[f][t].fullcontents /\ InView(view', f))
            => settings'[f][t].fullcontents

\* a render of a (flow, tab) with fullcontents set: the unlimited budget,
\* every provider line as the provider gave it, no notice line
FullRender ==
    (Pressed("redraw") /\ settings[focus][tab_offset].fullcontents)
        => /\ last'.lookup => last'.key[2] = sys_maxsize
           /\ NoticeCount(last'.ret[2]) = 0
           /\ conn.raw_content # None_content
                 => last'.ret[2] = get_message_content_view(viewmode_get, conn).lines

\* C11 as stated: "f" on the request or response tab of a flow sets
\* fullcontents for that flow and tab and for no other; no later step resets
\* it; every later render of that flow and tab uses the unlimited budget and
\* returns every provider line with no notice line.
C11_FullAfterKeyOnBodyTab ==
    [][ /\ (Pressed("f") /\ tab_offset \in { TAB_REQ, TAB_RESP }) => FullSetHere
        /\ FullStays
        /\ FullRender ]_vars

\* C11 amended: the same for "f" on a request or response tab whose message
\* exists; on the response tab of a flow without a response "f" is rejected
\* and sets nothing.
C11_FullAfterKeyOnMessage ==
    [][ /\ (Pressed("f") /\ conn # NoMessage) => FullSetHere
        /\ (Pressed("f") /\ conn = NoMessage) => settings' = settings
        /\ FullStays
        /\ FullRender ]_vars

\* after "f" on its request tab, the large request came back whole, three
\* lines of more characters than the default budget and no notice line
C11_Witness ==
    /\ out.key = "redraw"
    /\ focus = 1
    /\ tab_offset = TAB_REQ
    /\ settings[1][TAB_REQ].fullcontents
    /\ last.full
    /\ last.message = FlowA.request
    /\ Len(last.ret[2]) = 3
    /\ CharsOf(last.ret[2]) > max_chars_of(VIEW_CUTOFF)

\* the message of the active tab after the step
conn_after == conn_of(flows'[focus], tab_offset)

\* C13: "z" on a message whose content-encoding is not identity and whose
\* data does not decode reports "Could not decode", leaves the raw content
\* and the content-encoding as they were, raises nothing, and leaves the
\* dispatcher on the same flow and tab with no prompt open.
C13_DecodeFailureKeepsContent ==
    [][ (/\ Pressed("z")
         /\ conn # NoMessage
         /\ content_encoding(conn) # "identity"
         /\ decode_fails(conn))
            => /\ out'.status = "Could not decode - invalid data?"
               /\ conn_after.raw_content = conn.raw_content
               /\ content_encoding(conn_after) = content_encoding(conn)
               /\ out'.ret = "None"
               /\ screen' = "flowview"
               /\ prompt' = NoPrompt
               /\ focus' = focus
               /\ tab_offset' = tab_offset ]_vars

\* "z" was pressed on the request that declares gzip but is not gzip data
C13_Witness ==
    /\ out.key = "z"
    /\ out.status = "Could not decode - invalid data?"
    /\ focus = 2
    /\ tab_offset = TAB_REQ
    /\ flows[2].request = FlowB.request
    /\ flows[2].backup.has

\* the resolved view mode of every flow and tab is the default
AllDefault(s) ==
    \A f \in FlowIds, t \in Tabs : viewmode_of(s, f, t) = default_contentview

\* C14: the view mode resolved for a flow and tab is the one last selected
\* for that flow and tab, the default when none was: all start at the
\* default, a selection changes the resolved mode of the current flow and
\* tab to the selection and of no other, a flow that enters the collection
\* starts at the default, and no other step (resolving included: redraw and
\* the opening of the chooser) changes a setting of a flow of the collection.
C14_ViewModeResolution ==
    [][ /\ (nevents = 0) => AllDefault(settings)
        /\ Pressed("change_this_display_mode")
             => /\ viewmode_of(settings', focus, tab_offset) = out'.arg
                /\ \A f \in FlowIds, t \in Tabs :
                      << f, t >> # << focus, tab_offset >>
                          => viewmode_of(settings', f, t) = viewmode_of(settings, f, t)
        /\ ~Pressed("change_this_display_mode")
             => \/ settings' = settings /\ view' = view
                \/ \A f \in FlowIds, t \in Tabs :
                      /\ (InView(view, f) /\ InView(view', f))
                            => viewmode_of(settings', f, t) = viewmode_of(settings, f, t)
                      /\ (~InView(view, f) /\ InView(view', f))
                            => viewmode_of(settings', f, t) = default_contentview
        /\ (Pressed("redraw") \/ Pressed("m"))
             => /\ settings' = settings
                /\ Pressed("redraw") => last'.viewmode = viewmode_get ]_vars

\* hex was selected for the request tab of the first flow and a redraw used
\* it; the other tab and the other flow still resolve to the default
C14_Witness ==
    /\ out.key = "redraw"
    /\ focus = 1
    /\ tab_offset = TAB_REQ
    /\ last.viewmode = "hex"
    /\ viewmode_of(settings, 1, TAB_REQ) = "hex"
    /\ viewmode_of(settings, 1, TAB_RESP) = default_contentview
    /\ viewmode_of(settings, 2, TAB_REQ) = default_contentview

\* the labels of an intercepted flow without a response
InterceptLabels(fl) ==
    \A f \in FlowIds :
        (fl[f].intercepted /\ fl[f].response = NoMessage /\ fl[f] # NoFlow)
            => /\ tab_request(fl[f]) = "Request intercepted"
               /\ tab_response(fl[f]) = "Response"

\* C15: an intercepted flow without a response has the tab labels "Request
\* intercepted" and "Response"; after "a" the flow is not intercepted and its
\* request tab label is "Request".
C15_InterceptedLabel ==
    [][ /\ InterceptLabels(flows)
        /\ InterceptLabels(flows')
        /\ Pressed("a")
             => /\ ~flows'[focus].intercepted
                /\ tab_request(flows'[focus]) = "Request"
                /\ focus' = focus ]_vars

\* the intercepted flow without a response was accepted
C15_Witness ==
    /\ out.key = "a"
    /\ nevents = 1
    /\ focus = 2
    /\ flows[2].response = NoMessage
    /\ ~flows[2].intercepted
    /\ tab_request(flows[2]) = "Request"
    /\ tab_request(FlowB) = "Request intercepted"

\* C16: a replay that fails with a ReplayException is logged at level "warn",
\* nothing is raised to the caller, and flow_change is sent as it is after a
\* replay that succeeds.
C16_ReplayFailureWarned ==
    [][ Pressed("r")
            => /\ out'.flow_change
               /\ out'.ret = "None"
               /\ (out'.arg = "ReplayException")
                     => out'.log = add_log("Replay error", "warn")
               /\ (out'.arg # "ReplayException") => out'.log = NoLog
               /\ UNCHANGED << view, flows, focus, tab_offset, settings, screen, prompt >> ]_vars

\* a replay failed
C16_Witness ==
    /\ out.key = "r"
    /\ out.arg = "ReplayException"
    /\ out.log # NoLog
    /\ out.flow_change

\* C17: after "d" the flow was killed exactly if it was killable, it is not
\* in the collection, and the dispatcher shows the collection's new focused
\* flow, another one, or the flow list when none is left.
C17_DeleteFocusedFlow ==
    [][ Pressed("d")
            => /\ (out'.effect = "kill") <=> flow.killable
               /\ ~InView(view', focus)
               /\ Len(view') = Len(view) - 1
               /\ IF view' = << >>
                  THEN screen' = "flowlist" /\ focus' = 0
                  ELSE /\ screen' = "flowview"
                       /\ InView(view', focus')
                       /\ focus' = focus_after_remove(view, focus)
                       /\ focus' # focus ]_vars

\* the killable flow was deleted and killed; the remaining flow is shown
C17_Witness ==
    /\ out.key = "d"
    /\ out.effect = "kill"
    /\ view = << 1 >>
    /\ focus = 1
    /\ screen = "flowview"

====
